---- MODULE Spec2Model ----
(***************************************************************************)
(* A model of workload.py: the clone -> stat -> build -> stat -> record -> *)
(* cleanup pipeline of run_workload, the directory walk of statdir, the    *)
(* working-directory discipline of withcwd and the CSV results store.      *)
(*                                                                         *)
(* The file system below the target directory is a finite map from paths   *)
(* (sequences of names, relative to the target) to nodes.  External        *)
(* commands (git, make, configure) are the environment: each either cannot *)
(* be launched (subprocess.call raises OSError) or runs and returns an     *)
(* exit status, and whatever it writes it writes below the cloned project  *)
(* directory.                                                              *)
(***************************************************************************)
EXTENDS Integers, Sequences, FiniteSets, TLC

VARIABLES
    targetKind,  \* what `path` names: "missing", "file" or "dir"
    fs,          \* the entries below `path`: relative path -> node
    store,       \* output location -> the rows of the CSV file there
    cwd,         \* the process's current working directory
    now,         \* the wall clock read by time.time()
    pc,          \* position inside run_workload
    project,     \* argument `project`
    output,      \* argument `output`: where the CSV file lives
    header,      \* argument `header`
    results,     \* the local dict `results`
    snap,        \* the locals (size, files, dirs), time of the last statdir
    savedCwd,    \* the local `cwd` of withcwd's wrapper
    started,     \* the local `started` of timeit's wrapper around build
    i,           \* index of the next build command in the for loop
    pending,     \* the exception travelling through withcwd's finally
    err,         \* the exception run_workload ended with ("" = none)
    printed,     \* what was dumped on standard output by this run
    trace,       \* the stages this run has executed, in order
    exits,       \* exit statuses returned by this run's build commands
    store0,      \* the store when this run was invoked
    fs0,         \* the target's entries when this run was invoked
    runs         \* number of invocations so far

vars == <<targetKind, fs, store, cwd, now, pc, project, output, header,
          results, snap, savedCwd, started, i, pending, err, printed,
          trace, exits, store0, fs0, runs>>

-----------------------------------------------------------------------------
(* Bounds of the model.                                                    *)

MaxRuns == 2        \* invocations of run_workload in one behaviour
MaxClock == 1       \* the clock stops advancing at this reading
MaxEntries == 4     \* entries in the trees built for the walk
MaxSize == 1        \* largest file size in the trees built for the walk

-----------------------------------------------------------------------------
(* Projects and results keys (lines 37-102).                               *)

PROJECTS ==
    [redis |-> [repo |-> "git@github.com:antirez/redis.git",
                cmds |-> << <<"make">> >>],
     postgres |-> [repo |-> "git@github.com:postgres/postgres.git",
                   cmds |-> << <<"./configure">>, <<"make">> >>],
     nginx |-> [repo |-> "git@github.com:nginx/nginx.git",
                cmds |-> << <<"./auto/configure">>, <<"make">> >>],
     apache |-> [repo |-> "git@github.com:apache/httpd.git",
                 cmds |-> << <<"git", "clone",
                               "git@github.com:apache/apr.git", "srclib/apr">>,
                             <<"./buildconf">>,
                             <<"./configure", "--with-included-apr">>,
                             <<"make">> >>],
     ruby |-> [repo |-> "git@github.com:ruby/ruby.git",
               cmds |-> << <<"autoconf">>, <<"./configure">>, <<"make">> >>],
     python |-> [repo |-> "git@github.com:python/cpython.git",
                 cmds |-> << <<"./configure">>, <<"make">> >>]]

TEST_NAME == "test name"
TEST_PATH == "test path"
CLONE_TIME == "clone time"
CLONE_STAT == "clone stat"
CLONE_BYTES == "clone bytes"
CLONE_FILES == "clone files"
CLONE_DIRS == "clone dirs"
BUILD_TIME == "build time"
BUILD_STAT == "build stat"
BUILD_BYTES == "build bytes"
BUILD_FILES == "build files"
BUILD_DIRS == "build dirs"

TEST_RESULTS == <<TEST_NAME, TEST_PATH, CLONE_TIME, BUILD_TIME>>
CLONE_RESULTS == <<CLONE_STAT, CLONE_BYTES, CLONE_FILES, CLONE_DIRS>>
BUILD_RESULTS == <<BUILD_STAT, BUILD_BYTES, BUILD_FILES, BUILD_DIRS>>

-----------------------------------------------------------------------------
(* The inputs and the environment.                                         *)

\* The `path` argument and the directory the process is started in.
TargetPath == "/mnt/target"
OrigCwd == "/home/user"

\* os.path.join(a, b)
join(a, b) == a \o "/" \o b

\* The entry of the target that join(path, project) names.
ProjectDir(p) == <<p>>

\* Project names given on invocation: a registered one with two build
\* commands and one that is not registered.
ProjectInputs == {"postgres", "mysql"}

\* Where `output` points: a file outside the target, or a file directly
\* inside the target directory (e.g. the default 'results.csv' when the
\* target is the current directory).
Outputs == {"outside", "in_target"}
OutputName == "results.csv"

File(n) == [kind |-> "file", size |-> n]
Dir == [kind |-> "dir", size |-> 0]
NoFs == <<>>

\* What a clone of the project's repository puts below the target.
RepoTrees(p) ==
    { (<<p>> :> Dir) @@ (<<p, "Makefile">> :> File(1))
         @@ (<<p, "src">> :> Dir) @@ (<<p, "src", "main.c">> :> File(2)) }

\* The artefact the k-th build command leaves in the project directory.
Artefact(p, k) == <<p, "obj" \o ToString(k)>>

-----------------------------------------------------------------------------
(* The file system: os.listdir, os.walk, getsize, shutil.rmtree.           *)

IsPrefix(p, q) == Len(p) <= Len(q) /\ SubSeq(q, 1, Len(p)) = p

\* os.listdir(d): the immediate entries of directory d (<<>> is the target).
listdir(f, d) == {q \in DOMAIN f : Len(q) = Len(d) + 1 /\ IsPrefix(d, q)}

\* The `dirs` and `files` lists os.walk yields for directory d.
walkdirs(f, d) == {q \in listdir(f, d) : f[q].kind = "dir"}
walkfiles(f, d) == {q \in listdir(f, d) : f[q].kind = "file"}

\* sum(getsize(join(root, name)) for name in files)
RECURSIVE sumsizes(_, _)
sumsizes(f, S) ==
    IF S = {} THEN 0
    ELSE LET q == CHOOSE x \in S : TRUE
         IN  f[q].size + sumsizes(f, S \ {q})

RECURSIVE walk(_, _, _)

\* Fault: the walk lists the top directory only and never descends.
walk_top_only(f, todo, acc) ==
    IF todo = {} THEN acc
    ELSE LET root == CHOOSE d \in todo : TRUE
             dirs == walkdirs(f, root)
             files == walkfiles(f, root)
         IN  walk(f, todo \ {root},
                  <<acc[1] + sumsizes(f, files),
                    acc[2] + Cardinality(files),
                    acc[3] + Cardinality(dirs)>>)

\* The loop of statdir over os.walk (lines 139-142): `todo` holds the
\* directories os.walk has still to visit, acc the three running totals.
walk(f, todo, acc) ==
    IF todo = {} THEN acc
    ELSE LET root == CHOOSE d \in todo : TRUE
             dirs == walkdirs(f, root)
             files == walkfiles(f, root)
         IN  walk(f, (todo \ {root}) \cup dirs,
                  <<acc[1] + sumsizes(f, files),
                    acc[2] + Cardinality(files),
                    acc[3] + Cardinality(dirs)>>)

\* statdir(path) without its timing: (n_bytes, n_files, n_dirs).
statdir(f) == walk(f, {<<>>}, <<0, 0, 0>>)

\* timeit: the wrapped call's result paired with the elapsed time.
timeit(result, t0, t1) == <<result, t1 - t0>>

\* Fault: only the top entry is removed (os.rmdir instead of rmtree).
rmtree_top_only(f, top) == [q \in DOMAIN f \ {top} |-> f[q]]

\* shutil.rmtree(join(path, name)): the subtree is gone.
rmtree(f, top) ==
    LET keep == {q \in DOMAIN f : ~IsPrefix(top, q)}
    IN  [q \in keep |-> f[q]]

-----------------------------------------------------------------------------
(* The clock: an external operation takes zero or one tick.                *)

Durations == {d \in 0..1 : now + d <= MaxClock}

\* One executed stage: which stage, the command it launched (if any) and
\* the working directory it ran in.
Event(stage, cmd) == [stage |-> stage, cmd |-> cmd, cwd |-> cwd]

\* dict(zip(keys, vals)) and d.update(e)
zip(keys, vals) ==
    [k \in {keys[j] : j \in DOMAIN keys} |->
        vals[CHOOSE j \in DOMAIN keys : keys[j] = k]]
update(d, e) == e @@ d

\* Fault: the columns follow the insertion order of the results dict.
fields_insertion_order ==
    <<TEST_NAME, TEST_PATH, CLONE_TIME>> \o CLONE_RESULTS
       \o <<BUILD_TIME>> \o BUILD_RESULTS

\* The `fields` of the csv.DictWriter (line 216).
fields == TEST_RESULTS \o CLONE_RESULTS \o BUILD_RESULTS

\* One cell as csv writes it: str() of the value, restval '' if missing.
csvcell(d, k) ==
    IF k \notin DOMAIN d THEN ""
    ELSE IF k \in {TEST_NAME, TEST_PATH} THEN d[k]
    ELSE ToString(d[k])

\* writer.writeheader() and writer.writerow(results)
headerrow == fields
datarow(d) == [j \in DOMAIN fields |-> csvcell(d, fields[j])]

-----------------------------------------------------------------------------
(* The statement order of run_workload (lines 179-226): the stage that     *)
(* follows a stage that completed without raising.                         *)

\* Fault: the cloned tree is deleted before the results are written.
after_cleanup_first(stage) ==
    CASE stage = "validate" -> "lookup"
      [] stage = "lookup" -> "clone"
      [] stage = "clone" -> "stat1"
      [] stage = "stat1" -> "build"
      [] stage = "build" -> "stat2"
      [] stage = "stat2" -> "cleanup"
      [] stage = "cleanup" -> "write"
      [] stage = "write" -> "print"
      [] stage = "print" -> "done"

after(stage) ==
    CASE stage = "validate" -> "lookup"
      [] stage = "lookup" -> "clone"
      [] stage = "clone" -> "stat1"
      [] stage = "stat1" -> "build"
      [] stage = "build" -> "stat2"
      [] stage = "stat2" -> "write"
      [] stage = "write" -> "cleanup"
      [] stage = "cleanup" -> "print"
      [] stage = "print" -> "done"

-----------------------------------------------------------------------------
(* The initial state: a fresh process, nothing stored yet, and a target    *)
(* that is missing, a plain file, an empty directory or a directory with a *)
(* stray entry.                                                            *)

Init ==
    /\ targetKind \in {"missing", "file", "dir"}
    /\ fs \in IF targetKind = "dir"
              THEN {NoFs, (<<"stray">> :> File(1)), (<<"lost+found">> :> Dir)}
              ELSE {NoFs}
    /\ store = [o \in Outputs |-> <<>>]
    /\ cwd = OrigCwd
    /\ now = 0
    /\ pc = "idle"
    /\ project = "postgres"
    /\ output = "outside"
    /\ header = FALSE
    /\ results = <<>>
    /\ snap = <<<<0, 0, 0>>, 0>>
    /\ savedCwd = OrigCwd
    /\ started = 0
    /\ i = 1
    /\ pending = ""
    /\ err = ""
    /\ printed = <<>>
    /\ trace = <<>>
    /\ exits = <<>>
    /\ store0 = store
    /\ fs0 = fs
    /\ runs = 0

-----------------------------------------------------------------------------
(* run_workload, stage by stage.                                           *)

\* A call of run_workload(path, project, output, header) (line 173).
Invoke ==
    /\ pc \in {"idle", "done", "failed"}
    /\ runs < MaxRuns
    /\ \E p \in ProjectInputs, o \in Outputs, h \in BOOLEAN :
          /\ project' = p
          /\ output' = o
          /\ header' = h
    /\ pc' = "validate"
    /\ runs' = runs + 1
    /\ results' = <<>>
    /\ snap' = <<<<0, 0, 0>>, 0>>
    /\ i' = 1
    /\ pending' = ""
    /\ err' = ""
    /\ printed' = <<>>
    /\ trace' = <<>>
    /\ exits' = <<>>
    /\ store0' = store
    /\ fs0' = fs
    /\ UNCHANGED <<targetKind, fs, store, cwd, now, savedCwd, started>>

\* Fault: the emptiness check is missing.
validate_exists_only(kind, f) ==
    IF kind # "dir" THEN "TypeError: must be an existing directory!"
    ELSE ""

\* Lines 179-185: the exception the two checks of the path raise ("" when
\* the path is an existing, empty directory).
validate(kind, f) ==
    IF kind # "dir" THEN "TypeError: must be an existing directory!"
    ELSE IF Cardinality(listdir(f, <<>>)) > 0 THEN "ValueError: is not empty!"
    ELSE ""

\* Lines 179-185: the path must be an existing, empty directory.
ValidateTarget ==
    /\ pc = "validate"
    /\ trace' = Append(trace, Event("validate", <<>>))
    /\ err' = validate(targetKind, fs)
    /\ pc' = IF err' # "" THEN "failed" ELSE after("validate")
    /\ UNCHANGED <<targetKind, fs, store, cwd, now, project, output, header,
                   results, snap, savedCwd, started, i, pending, printed,
                   exits, store0, fs0, runs>>

\* Fault: no membership test, so the dictionary lookup raises KeyError.
GetProject_key_error ==
    /\ pc = "lookup"
    /\ trace' = Append(trace, Event("lookup", <<>>))
    /\ IF project \notin DOMAIN PROJECTS
       THEN /\ err' = "KeyError: project"
            /\ pc' = "failed"
            /\ results' = results
       ELSE /\ err' = err
            /\ pc' = after("lookup")
            /\ results' = (TEST_NAME :> project) @@ (TEST_PATH :> TargetPath)
    /\ UNCHANGED <<targetKind, fs, store, cwd, now, project, output, header,
                   snap, savedCwd, started, i, pending, printed, exits,
                   store0, fs0, runs>>

\* Lines 187-196: look the project up and create the results object.
GetProject ==
    /\ pc = "lookup"
    /\ trace' = Append(trace, Event("lookup", <<>>))
    /\ IF project \notin DOMAIN PROJECTS
       THEN /\ err' = "ValueError: unknown project"
            /\ pc' = "failed"
            /\ results' = results
       ELSE /\ err' = err
            /\ pc' = after("lookup")
            /\ results' = (TEST_NAME :> project) @@ (TEST_PATH :> TargetPath)
    /\ UNCHANGED <<targetKind, fs, store, cwd, now, project, output, header,
                   snap, savedCwd, started, i, pending, printed, exits,
                   store0, fs0, runs>>

\* Lines 147-152 and 199: git clone into join(path, project), timed.  git
\* cannot be launched (call raises), or exits non-zero leaving nothing
\* behind, or creates the project tree.
Clone ==
    /\ pc = "clone"
    /\ trace' = Append(trace,
                  Event("clone", <<"git", "clone", PROJECTS[project].repo,
                                   join(TargetPath, project)>>))
    /\ \/ /\ err' = "OSError: clone"
          /\ pc' = "failed"
          /\ UNCHANGED <<fs, now, results>>
       \/ \E d \in Durations :
             /\ now' = now + d
             /\ \/ fs' = fs
                \/ \E t \in RepoTrees(project) : fs' = t @@ fs
             /\ results' = update(results, CLONE_TIME :> timeit(<<>>, now, now')[2])
             /\ pc' = after("clone")
             /\ err' = err
    /\ UNCHANGED <<targetKind, store, cwd, project, output, header, snap,
                   savedCwd, started, i, pending, printed, exits, store0,
                   fs0, runs>>

\* Lines 129-144 and 202-204 / 210-212: walk the whole target, timed, and
\* store the four snapshot fields under `keys`.  getsize raises when a
\* listed file cannot be stat'ed; the error leaves run_workload.
Stat(stage, keys) ==
    /\ pc = stage
    /\ trace' = Append(trace, Event(stage, <<>>))
    /\ \/ /\ \E q \in DOMAIN fs : fs[q].kind = "file"
          /\ err' = "OSError: stat"
          /\ pc' = "failed"
          /\ UNCHANGED <<now, snap, results>>
       \/ \E d \in Durations :
             /\ now' = now + d
             /\ snap' = timeit(statdir(fs), now, now')
             /\ results' = update(results,
                              zip(keys, <<snap'[2], snap'[1][1],
                                          snap'[1][2], snap'[1][3]>>))
             /\ pc' = after(stage)
             /\ err' = err
    /\ UNCHANGED <<targetKind, fs, store, cwd, project, output, header,
                   savedCwd, started, i, pending, printed, exits, store0,
                   fs0, runs>>

StatClone == Stat("stat1", CLONE_RESULTS)

\* Fault: the second snapshot is stored under the post-clone keys again.
StatBuild_clone_keys == Stat("stat2", CLONE_RESULTS)

StatBuild == Stat("stat2", BUILD_RESULTS)

\* Lines 109-126: entering build: timeit reads the clock, withcwd saves the
\* working directory.
BuildEnter ==
    /\ pc = "build"
    /\ started' = now
    /\ savedCwd' = cwd
    /\ pc' = "chdir"
    /\ UNCHANGED <<targetKind, fs, store, cwd, now, project, output, header,
                   results, snap, i, pending, err, printed, trace, exits,
                   store0, fs0, runs>>

\* Line 162: os.chdir(path) raises when the project directory is not there.
BuildChdir ==
    /\ pc = "chdir"
    /\ IF ProjectDir(project) \in DOMAIN fs
       THEN /\ cwd' = join(TargetPath, project)
            /\ i' = 1
            /\ pc' = "cmds"
            /\ pending' = pending
       ELSE /\ pending' = "FileNotFoundError: chdir"
            /\ pc' = "finally"
            /\ UNCHANGED <<cwd, i>>
    /\ UNCHANGED <<targetKind, fs, store, now, project, output, header,
                   results, snap, savedCwd, started, err, printed, trace,
                   exits, store0, fs0, runs>>

\* Fault: check_call instead of call: a non-zero exit status raises.
BuildCmd_check_call ==
    /\ pc = "cmds"
    /\ i <= Len(PROJECTS[project].cmds)
    /\ trace' = Append(trace, Event("build", PROJECTS[project].cmds[i]))
    /\ \/ /\ pending' = "OSError: build"
          /\ pc' = "finally"
          /\ UNCHANGED <<fs, now, i, exits>>
       \/ \E d \in Durations, code \in {0, 2} :
             /\ now' = now + d
             /\ fs' = IF code = 0
                      THEN (Artefact(project, i) :> File(1)) @@ fs
                      ELSE fs
             /\ exits' = Append(exits, code)
             /\ i' = i + 1
             /\ pc' = IF code # 0 \/ i' > Len(PROJECTS[project].cmds)
                      THEN "finally" ELSE "cmds"
             /\ pending' = IF code # 0 THEN "OSError: build" ELSE pending
    /\ UNCHANGED <<targetKind, store, cwd, project, output, header, results,
                   snap, savedCwd, started, err, printed, store0, fs0, runs>>

\* Lines 165-166: one pass of the loop: call(cmd).  The command cannot be
\* launched (call raises), or it runs and exits 0 leaving an artefact in the
\* project directory, or it runs and fails with exit status 2; the status
\* call() returns is dropped.
BuildCmd ==
    /\ pc = "cmds"
    /\ i <= Len(PROJECTS[project].cmds)
    /\ trace' = Append(trace, Event("build", PROJECTS[project].cmds[i]))
    /\ \/ /\ pending' = "OSError: build"
          /\ pc' = "finally"
          /\ UNCHANGED <<fs, now, i, exits>>
       \/ \E d \in Durations, code \in {0, 2} :
             /\ now' = now + d
             /\ fs' = IF code = 0
                      THEN (Artefact(project, i) :> File(1)) @@ fs
                      ELSE fs
             /\ exits' = Append(exits, code)
             /\ i' = i + 1
             /\ pc' = IF i' > Len(PROJECTS[project].cmds)
                      THEN "finally" ELSE "cmds"
             /\ pending' = pending
    /\ UNCHANGED <<targetKind, store, cwd, project, output, header, results,
                   snap, savedCwd, started, err, printed, store0, fs0, runs>>

\* Fault: the working directory is restored on normal return only.
BuildFinally_no_finally ==
    /\ pc = "finally"
    /\ cwd' = IF pending # "" THEN cwd ELSE savedCwd
    /\ IF pending # ""
       THEN /\ err' = pending
            /\ pc' = "failed"
            /\ results' = results
       ELSE /\ err' = err
            /\ pc' = after("build")
            /\ results' = update(results,
                              BUILD_TIME :> timeit(<<>>, started, now)[2])
    /\ pending' = ""
    /\ UNCHANGED <<targetKind, fs, store, now, project, output, header, snap,
                   savedCwd, started, i, printed, trace, exits, store0, fs0,
                   runs>>

\* Fault: a failed build falls through to the cleanup.
BuildFinally_cleanup_on_error ==
    /\ pc = "finally"
    /\ cwd' = savedCwd
    /\ IF pending # ""
       THEN /\ err' = pending
            /\ pc' = "cleanup"
            /\ results' = results
       ELSE /\ err' = err
            /\ pc' = after("build")
            /\ results' = update(results,
                              BUILD_TIME :> timeit(<<>>, started, now)[2])
    /\ pending' = ""
    /\ UNCHANGED <<targetKind, fs, store, now, project, output, header, snap,
                   savedCwd, started, i, printed, trace, exits, store0, fs0,
                   runs>>

\* Lines 124-125, 114 and 207: withcwd's finally restores the working
\* directory; then the exception propagates, or timeit returns the elapsed
\* time, which becomes the build time.
BuildFinally ==
    /\ pc = "finally"
    /\ cwd' = savedCwd
    /\ IF pending # ""
       THEN /\ err' = pending
            /\ pc' = "failed"
            /\ results' = results
       ELSE /\ err' = err
            /\ pc' = after("build")
            /\ results' = update(results,
                              BUILD_TIME :> timeit(<<>>, started, now)[2])
    /\ pending' = ""
    /\ UNCHANGED <<targetKind, fs, store, now, project, output, header, snap,
                   savedCwd, started, i, printed, trace, exits, store0, fs0,
                   runs>>

\* Lines 214-220: append to the output file: the header row if asked for,
\* then the data row.  open() may fail; opening for append creates the file.
WriteResults ==
    /\ pc = "write"
    /\ trace' = Append(trace, Event("append", <<>>))
    /\ \/ /\ err' = "OSError: open"
          /\ pc' = "failed"
          /\ UNCHANGED <<store, fs>>
       \/ /\ store' = [store EXCEPT ![output] =
                         @ \o (IF header THEN <<headerrow>> ELSE <<>>)
                           \o <<datarow(results)>>]
          /\ fs' = IF output = "in_target"
                   THEN (<<OutputName>> :> File(Len(store'[output]))) @@ fs
                   ELSE fs
          /\ pc' = after("write")
          /\ err' = err
    /\ UNCHANGED <<targetKind, cwd, now, project, output, header, results,
                   snap, savedCwd, started, i, pending, printed, exits,
                   store0, fs0, runs>>

\* Lines 222-223: shutil.rmtree(join(path, project)).
Cleanup ==
    /\ pc = "cleanup"
    /\ trace' = Append(trace, Event("rmtree", <<>>))
    /\ \/ /\ err' = "OSError: rmtree"
          /\ pc' = "failed"
          /\ fs' = fs
       \/ /\ ProjectDir(project) \in DOMAIN fs
          /\ fs' = rmtree(fs, ProjectDir(project))
          /\ pc' = after("cleanup")
          /\ err' = err
    /\ UNCHANGED <<targetKind, store, cwd, now, project, output, header,
                   results, snap, savedCwd, started, i, pending, printed,
                   exits, store0, fs0, runs>>

\* Lines 225-226: print the results; run_workload returns.
PrintResults ==
    /\ pc = "print"
    /\ trace' = Append(trace, Event("print", <<>>))
    /\ printed' = results
    /\ pc' = after("print")
    /\ UNCHANGED <<targetKind, fs, store, cwd, now, project, output, header,
                   results, snap, savedCwd, started, i, pending, err, exits,
                   store0, fs0, runs>>

Next ==
    \/ Invoke
    \/ ValidateTarget
    \/ GetProject
    \/ Clone
    \/ StatClone
    \/ BuildEnter
    \/ BuildChdir
    \/ BuildCmd
    \/ BuildFinally
    \/ StatBuild
    \/ WriteResults
    \/ Cleanup
    \/ PrintResults

Spec == Init /\ [][Next]_vars

-----------------------------------------------------------------------------
(* statdir on its own: the environment builds an arbitrary tree below the  *)
(* target, entry by entry, and statdir(path) is then called on it.         *)

Names == {"a", "b"}

InitStat ==
    /\ Init
    /\ targetKind = "dir"
    /\ fs = NoFs

\* The environment creates one more file or directory in the tree.
MkEntry ==
    /\ pc = "idle"
    /\ Cardinality(DOMAIN fs) < MaxEntries
    /\ \E parent \in {<<>>} \cup {q \in DOMAIN fs : fs[q].kind = "dir"},
          name \in Names,
          node \in {Dir} \cup {File(n) : n \in 0..MaxSize} :
          /\ Append(parent, name) \notin DOMAIN fs
          /\ fs' = (Append(parent, name) :> node) @@ fs
    /\ UNCHANGED <<targetKind, store, cwd, now, pc, project, output, header,
                   results, snap, savedCwd, started, i, pending, err, printed,
                   trace, exits, store0, fs0, runs>>

\* Lines 129-144: a call of the timed statdir(path).
StatTree ==
    /\ pc = "idle"
    /\ \E d \in Durations :
          /\ now' = now + d
          /\ snap' = timeit(statdir(fs), now, now')
    /\ fs0' = fs
    /\ pc' = "statted"
    /\ UNCHANGED <<targetKind, fs, store, cwd, project, output, header,
                   results, savedCwd, started, i, pending, err, printed,
                   trace, exits, store0, runs>>

NextStat ==
    \/ MkEntry
    \/ StatTree

SpecStat == InitStat /\ [][NextStat]_vars

-----------------------------------------------------------------------------
(* Vocabulary of the properties.                                           *)

\* The stages this run has executed, and the commands it has launched.
Stages == [j \in DOMAIN trace |-> trace[j].stage]
BuildEvents == {j \in DOMAIN trace : trace[j].stage = "build"}
Happened(stage) == \E j \in DOMAIN trace : trace[j].stage = stage

\* The twelve column names in the documented order.
Columns ==
    <<"test name", "test path", "clone time", "build time",
      "clone stat", "clone bytes", "clone files", "clone dirs",
      "build stat", "build bytes", "build files", "build dirs">>

\* The rows this run has added to the file at o, and whether the rows that
\* were there before are still its prefix.
NewRows(o) == SubSeq(store[o], Len(store0[o]) + 1, Len(store[o]))
KeepsPrefix(o) ==
    /\ Len(store0[o]) <= Len(store[o])
    /\ SubSeq(store[o], 1, Len(store0[o])) = store0[o]
IsRecord(row) == row # Columns
Records(rows) == {j \in DOMAIN rows : IsRecord(rows[j])}
AppendedRecords ==
    Cardinality(Records(NewRows("outside")))
      + Cardinality(Records(NewRows("in_target")))
Populated(row) == Len(row) = 12 /\ \A j \in 1..12 : row[j] # ""

\* The complete stage sequence of a run for project p.
StagesOf(p) ==
    <<"validate", "lookup">> \o
    (IF p \in DOMAIN PROJECTS
     THEN <<"clone", "stat1">>
            \o [j \in 1..Len(PROJECTS[p].cmds) |-> "build"]
            \o <<"stat2", "append", "rmtree", "print">>
     ELSE <<>>)

\* The run failed in validation, lookup, clone, a stat walk or the build.
MeasureErrors ==
    {"OSError: clone", "OSError: stat", "FileNotFoundError: chdir",
     "OSError: build"}
EarlyErrors ==
    {"TypeError: must be an existing directory!", "ValueError: is not empty!",
     "ValueError: unknown project"} \cup MeasureErrors

-----------------------------------------------------------------------------
(* C1: every invocation of run_workload appends at most one record to the  *)
(* results store and exactly one when it returns; every appended record    *)
(* has all twelve fields populated; a run that fails in validation, clone, *)
(* stat or build appends nothing.                                          *)
C1_OneFullRecord ==
    /\ \A o \in Outputs : KeepsPrefix(o)
    /\ AppendedRecords <= 1
    /\ pc = "done" => AppendedRecords = 1
    /\ \A o \in Outputs : \A j \in Records(NewRows(o)) :
          Populated(NewRows(o)[j])
    /\ (pc = "failed" /\ err \in EarlyErrors) => store = store0

C1_Witness ==
    /\ pc = "done"
    /\ AppendedRecords = 1
    /\ runs = 2
    /\ Len(store0["outside"]) > 0

-----------------------------------------------------------------------------
(* C2: a target that does not exist or is not a directory fails with the   *)
(* invalid-target error, an existing directory with any entry fails with   *)
(* the non-empty-target error; in both cases the store is not mutated and  *)
(* no clone, build, stat or cleanup is performed.                          *)
C2_TargetRejected ==
    (pc \notin {"idle", "validate"} /\ (targetKind # "dir" \/ DOMAIN fs0 # {}))
    => /\ pc = "failed"
       /\ err = IF targetKind # "dir"
                THEN "TypeError: must be an existing directory!"
                ELSE "ValueError: is not empty!"
       /\ Stages = <<"validate">>
       /\ store = store0
       /\ fs = fs0
       /\ cwd = OrigCwd

C2_Witness ==
    /\ pc = "failed"
    /\ targetKind = "dir"
    /\ err = "ValueError: is not empty!"
    /\ runs = 2
    /\ <<"postgres">> \in DOMAIN fs0

C2_WitnessMissing ==
    /\ pc = "failed"
    /\ targetKind = "missing"
    /\ err = "TypeError: must be an existing directory!"

-----------------------------------------------------------------------------
(* C3: on a target that passes validation, a project name that is not a    *)
(* key of the registry fails with the unknown-project error before any     *)
(* clone, build or stat, leaving the store and the target unchanged.       *)
C3_UnknownProject ==
    (/\ pc \notin {"idle", "validate", "lookup"}
     /\ validate(targetKind, fs0) = ""
     /\ project \notin DOMAIN PROJECTS)
    => /\ pc = "failed"
       /\ err = "ValueError: unknown project"
       /\ Stages = <<"validate", "lookup">>
       /\ store = store0
       /\ fs = fs0

C3_Witness ==
    /\ pc = "failed"
    /\ err = "ValueError: unknown project"
    /\ project = "mysql"
    /\ DOMAIN fs = {}

-----------------------------------------------------------------------------
(* C4 as stated: after any successful run the target directory is empty    *)
(* again, so the next run passes the validation.                           *)
C4_Original ==
    pc = "done" => (DOMAIN fs = {} /\ validate(targetKind, fs) = "")

(* C4 amended: after any successful run whose output file is not inside    *)
(* the target directory, the target directory is empty again (the cloned   *)
(* subtree is absent and nothing else remains), so the next run passes the *)
(* existence and emptiness validation.                                     *)
C4_EmptyAgain ==
    /\ (pc = "done" /\ output # "in_target")
         => (DOMAIN fs = {} /\ validate(targetKind, fs) = "")
    /\ pc = "done" => \A q \in DOMAIN fs : ~IsPrefix(ProjectDir(project), q)

C4_Witness ==
    /\ pc = "done"
    /\ runs = 2
    /\ Len(store["outside"]) >= 2
    /\ output = "outside"
    /\ DOMAIN fs = {}

-----------------------------------------------------------------------------
(* C5: the working directory after the build phase equals the one before   *)
(* it, whether the build completes or raises; every build command is       *)
(* issued with the working directory changed to target_path/project_name;  *)
(* every later stage runs with the original working directory.             *)
C5_CwdRestored ==
    /\ pc \notin {"chdir", "cmds", "finally"} => cwd = OrigCwd
    /\ \A j \in DOMAIN trace :
          IF trace[j].stage = "build"
          THEN trace[j].cwd = join(TargetPath, project)
          ELSE trace[j].cwd = OrigCwd

C5_Witness ==
    /\ pc = "failed"
    /\ err = "OSError: build"
    /\ Len(exits) = 1
    /\ cwd = OrigCwd

C5_WitnessDone ==
    /\ pc = "done"
    /\ cwd = OrigCwd
    /\ \E j \in DOMAIN trace : trace[j].cwd # OrigCwd

-----------------------------------------------------------------------------
(* C6: a non-zero exit status of a build step is not an error: every build *)
(* step is still launched in registry order, and the run goes on to the    *)
(* post-build snapshot, appends exactly one record and cleans up, as it    *)
(* does when all steps exit with status zero.                              *)
C6_ExitStatusIgnored ==
    LET n == Cardinality(BuildEvents)
        cmds == PROJECTS[project].cmds
        launchfailed == "OSError: build" \in {pending, err}
    IN  Happened("build") =>
          /\ n <= Len(cmds)
          /\ \A j \in BuildEvents : \E k \in 1..n :
                /\ trace[j].cmd = cmds[k]
                /\ Cardinality({m \in BuildEvents : m <= j}) = k
          /\ Len(exits) = IF launchfailed THEN n - 1 ELSE n
          /\ pending \in {"", "OSError: build"}
          /\ (pc = "cmds" /\ ~launchfailed) => i = Len(exits) + 1
          /\ (pc = "finally" /\ ~launchfailed) => n = Len(cmds)
          /\ Happened("stat2") => (n = Len(cmds) /\ Len(exits) = n)
          /\ pc = "done" =>
                /\ AppendedRecords = 1
                /\ ProjectDir(project) \notin DOMAIN fs

C6_Witness ==
    /\ pc = "done"
    /\ project = "postgres"
    /\ exits = <<2, 2>>
    /\ AppendedRecords = 1

-----------------------------------------------------------------------------
(* C7: cleanup is attempted only after the clone, both stat walks and the  *)
(* build have completed without raising; if one of them raises the run     *)
(* ends in error with no deletion attempted and the cloned tree is left in *)
(* the target directory.                                                   *)
C7_CleanupLast ==
    /\ Happened("rmtree") =>
          /\ project \in DOMAIN PROJECTS
          /\ Len(Stages) >= Len(StagesOf(project)) - 1
          /\ SubSeq(Stages, 1, Len(StagesOf(project)) - 1)
                = SubSeq(StagesOf(project), 1, Len(StagesOf(project)) - 1)
          /\ Len(exits) = Len(PROJECTS[project].cmds)
    /\ (pc = "failed" /\ err \in MeasureErrors) =>
          /\ ~Happened("rmtree")
          /\ \A q \in DOMAIN fs0 : q \in DOMAIN fs
          /\ err \in {"OSError: stat", "OSError: build"} =>
                /\ ProjectDir(project) \in DOMAIN fs
                /\ \E t \in RepoTrees(project) :
                      \A q \in DOMAIN t : q \in DOMAIN fs /\ fs[q] = t[q]

C7_Witness ==
    /\ pc = "failed"
    /\ err = "OSError: build"
    /\ ProjectDir(project) \in DOMAIN fs
    /\ Artefact(project, 1) \in DOMAIN fs

-----------------------------------------------------------------------------
(* C8: with the header flag set the twelve column names, in the fixed      *)
(* order, are appended immediately before the data row (a fresh file is    *)
(* exactly the header line and one data row); with the flag unset no       *)
(* header row is written; the rows stored before stay a prefix.            *)
C8_HeaderRow ==
    Happened("append") /\ err # "OSError: open" =>
       /\ \A o \in Outputs : KeepsPrefix(o)
       /\ \A o \in Outputs \ {output} : store[o] = store0[o]
       /\ LET new == NewRows(output)
          IN  IF header
              THEN /\ Len(new) = 2
                   /\ new[1] = Columns
                   /\ IsRecord(new[2])
                   /\ new[2][1] = project
                   /\ store0[output] = <<>> =>
                         (Len(store[output]) = 2 /\ store[output][1] = Columns)
              ELSE /\ Len(new) = 1
                   /\ IsRecord(new[1])
                   /\ new[1][1] = project

C8_Witness ==
    /\ pc = "done"
    /\ header
    /\ store0[output] = <<>>
    /\ Len(store[output]) = 2
    /\ store[output][1] = Columns

C8_WitnessAppend ==
    /\ pc = "done"
    /\ ~header
    /\ Len(store0[output]) = 2
    /\ Len(store[output]) = 3

-----------------------------------------------------------------------------
(* C9: in every successful run the stages occur exactly once each in the   *)
(* order validation, lookup, clone, post-clone stat, all build steps in    *)
(* registry order, post-build stat, append, deletion, print; so the        *)
(* post-clone snapshot is taken before any build step and the record is    *)
(* appended before the cloned tree is deleted.                             *)
C9_StageOrder ==
    /\ pc # "idle" => IsPrefix(Stages, StagesOf(project))
    /\ pc = "done" =>
          /\ Stages = StagesOf(project)
          /\ [j \in 1..Len(PROJECTS[project].cmds) |-> trace[j + 4].cmd]
                = PROJECTS[project].cmds
          /\ printed = results
          /\ DOMAIN results = {fields[j] : j \in DOMAIN fields}
          /\ \E t \in RepoTrees(project) :
                /\ results[CLONE_FILES] = statdir(t)[2]
                /\ results[BUILD_FILES] =
                      statdir(t)[2] + Cardinality({j \in DOMAIN exits : exits[j] = 0})

C9_Witness ==
    /\ pc = "done"
    /\ project = "postgres"
    /\ Len(trace) = 10
    /\ exits = <<0, 0>>

-----------------------------------------------------------------------------
(* C10: for every finite tree without symbolic links statdir returns the   *)
(* sum of the sizes of all regular files in the tree, the number of files  *)
(* in the tree, and the sum over every directory of the tree of its number *)
(* of immediate subdirectories; (0, 0, 0) for an empty directory; and it   *)
(* modifies nothing in the tree.                                           *)
TreeFiles(f) == {q \in DOMAIN f : f[q].kind = "file"}
TreeDirs(f) == {<<>>} \cup {q \in DOMAIN f : f[q].kind = "dir"}
Subdirs(f, d) ==
    {q \in DOMAIN f : f[q].kind = "dir" /\ Len(q) = Len(d) + 1 /\ IsPrefix(d, q)}

RECURSIVE TotalSize(_, _)
TotalSize(f, S) ==
    IF S = {} THEN 0
    ELSE LET q == CHOOSE x \in S : TRUE
         IN  f[q].size + TotalSize(f, S \ {q})

RECURSIVE TotalSubdirs(_, _)
TotalSubdirs(f, D) ==
    IF D = {} THEN 0
    ELSE LET d == CHOOSE x \in D : TRUE
         IN  Cardinality(Subdirs(f, d)) + TotalSubdirs(f, D \ {d})

C10_StatdirTotals ==
    pc = "statted" =>
       /\ snap[1] = <<TotalSize(fs, TreeFiles(fs)),
                      Cardinality(TreeFiles(fs)),
                      TotalSubdirs(fs, TreeDirs(fs))>>
       /\ DOMAIN fs = {} => snap[1] = <<0, 0, 0>>
       /\ fs = fs0
       /\ snap[2] >= 0

C10_Witness ==
    /\ pc = "statted"
    /\ \E q \in DOMAIN fs : Len(q) = 3 /\ fs[q].kind = "file" /\ fs[q].size > 0
    /\ \E q \in DOMAIN fs : Len(q) = 1 /\ fs[q].kind = "file"
    /\ snap[1][3] = 2

C10_WitnessEmpty ==
    /\ pc = "statted"
    /\ DOMAIN fs = {}
    /\ snap[1] = <<0, 0, 0>>

====
